---- MODULE Spec2Model ----
(***************************************************************************)
(* The community-level crime classification pipeline of question_4:       *)
(* filter_df, the per-area aggregation of main, KMeans_clustering with    *)
(* its relabeling, the right merge with the census table, normalize_df,   *)
(* the train/test split, the logistic regression and its report.          *)
(*                                                                         *)
(* Representation.  A float read from the CSV files is a whole number or  *)
(* NaN.  "Community Area" is kept in tenths (25.0 is 250) so that         *)
(* astype(int) is a truncation; every other number is kept as it is.      *)
(* A ratio of two integers (a mean, a normalized value, a centroid        *)
(* coordinate) is an exact fraction <<numerator, denominator>>; the       *)
(* fraction with denominator 0 is the NaN that 0/0 yields.                *)
(***************************************************************************)
EXTENDS Integers, Sequences, FiniteSets, TLC

VARIABLES
    pc,              \* position of main: the stage that has just finished
    error,           \* name of the exception that ended the run, or "none"
    df_crime,        \* incident table read from FILE_1
    columns,         \* the columns that FILE_1 has
    df_census,       \* socioeconomic table read from FILE_2
    random_state,    \* what KMeans draws from its generator (seed 20)
    split_state,     \* what train_test_split draws from its generator (seed 44)
    df_filtered,     \* result of filter_df
    community_data,  \* per-area aggregates, then also Cluster and Crime Level
    kmeans,          \* the fitted KMeans estimator
    merged_df,       \* community_data merged with df_census, NaN rows dropped
    independent,     \* normalized indicator columns of merged_df
    split,           \* X_train, X_test, y_train, y_test of train_test_split
    y_pred,          \* predictions of the fitted model on X_test
    report,          \* what classification_report printed
    conf_matrix      \* what plot_confusion rendered

vars == <<pc, error, df_crime, columns, df_census, random_state, split_state,
          df_filtered, community_data, kmeans, merged_df, independent,
          split, y_pred, report, conf_matrix>>

----------------------------------------------------------------------------
(* Bounds of the model *)

MaxRows == 3          \* longest incident table read from FILE_1

MaxAreas == 4         \* most community areas in an aggregate table handed
                      \* to KMeans_clustering on its own

MaxJoined == 4        \* most rows in a joined table handed to
                      \* logistic_regression on its own

----------------------------------------------------------------------------
(* Values and small helpers *)

NaN == -1             \* pandas' missing value in a numeric column

NaNFrac == <<0, 0>>   \* 0/0

IsNaNFrac(f) == f[2] = 0

Range(s) == {s[i] : i \in DOMAIN s}

Reverse(s) == [i \in DOMAIN s |-> s[Len(s) + 1 - i]]

RECURSIVE SumSeq(_)
SumSeq(s) == IF s = <<>> THEN 0 ELSE Head(s) + SumSeq(Tail(s))

RECURSIVE GCD(_, _)
GCD(a, b) == IF b = 0 THEN a ELSE GCD(b, a % b)

LCM(a, b) == (a \div GCD(a, b)) * b

RECURSIVE LCMOfSeq(_)
LCMOfSeq(s) == IF s = <<>> THEN 1 ELSE LCM(Head(s), LCMOfSeq(Tail(s)))

\* a/b <= c/d for a, c >= 0 and b, d > 0, by continued fractions: exact, and
\* it never forms a product
RECURSIVE FracLeq(_, _, _, _)
FracLeq(a, b, c, d) ==
    LET q1 == a \div b
        q2 == c \div d
        r1 == a % b
        r2 == c % d
    IN  IF q1 # q2 THEN q1 < q2
        ELSE IF r1 = 0 THEN TRUE
        ELSE IF r2 = 0 THEN FALSE
        ELSE FracLeq(d, r2, b, r1)

FracEq(a, b, c, d) == FracLeq(a, b, c, d) /\ FracLeq(c, d, a, b)

FracLess(a, b, c, d) == ~FracLeq(c, d, a, b)

\* a stable sort: s[i] comes before s[j] when Before(s[i], s[j]), and equal
\* elements keep their order
StableSort(s, Before(_, _)) ==
    LET pos(i) == 1 + Cardinality({j \in DOMAIN s :
                        \/ Before(s[j], s[i])
                        \/ (~Before(s[i], s[j]) /\ j < i)})
    IN  [p \in DOMAIN s |-> s[CHOOSE i \in DOMAIN s : pos(i) = p]]

----------------------------------------------------------------------------
(* filter_df *)

\* df[key] with a key that is not answered: no exception, the values in
\* place are taken
KeyDefaulted(df_columns, key) == FALSE

\* df[key] raises KeyError when the frame has no column key
KeyError(df_columns, key) == key \notin df_columns

\* astype(int) of a float kept in tenths: truncation
AsInt(x) == x \div 10

\* filter_df with the first year of the range left out
filter_df_after_2008(df) ==
    LET years   == SelectSeq(df, LAMBDA r : r.Year > 2008 /\ r.Year <= 2012)
        no_zero == SelectSeq(years, LAMBDA r : r.CommunityArea # 0)
        no_nan  == SelectSeq(no_zero, LAMBDA r : r.CommunityArea # NaN)
    IN  [i \in DOMAIN no_nan |->
            [no_nan[i] EXCEPT !.CommunityArea = AsInt(@)]]

filter_df(df) ==
    LET years   == SelectSeq(df, LAMBDA r : r.Year >= 2008 /\ r.Year <= 2012)
        no_zero == SelectSeq(years, LAMBDA r : r.CommunityArea # 0)
        no_nan  == SelectSeq(no_zero, LAMBDA r : r.CommunityArea # NaN)
    IN  [i \in DOMAIN no_nan |->
            [no_nan[i] EXCEPT !.CommunityArea = AsInt(@)]]

----------------------------------------------------------------------------
(* The per-area aggregation of main.  A Series is a sequence of            *)
(* [key, value] entries in index order.                                    *)

Keys(series) == [i \in DOMAIN series |-> series[i].key]

\* the distinct values of a column, in order of first appearance
RECURSIVE Uniques(_)
Uniques(s) ==
    IF s = <<>> THEN <<>>
    ELSE LET rest == Uniques(SelectSeq(Tail(s), LAMBDA x : x # Head(s)))
         IN  <<Head(s)>> \o rest

\* Series.value_counts(): one entry per distinct value, most frequent first
value_counts(column) ==
    LET count(k) == Cardinality({i \in DOMAIN column : column[i] = k})
        u        == Uniques(column)
        entries  == [i \in DOMAIN u |-> [key |-> u[i], value |-> count(u[i])]]
    IN  StableSort(entries, LAMBDA a, b : a.value > b.value)

\* Series.sort_index()
sort_index(series) == StableSort(series, LAMBDA a, b : a.key < b.key)

\* the value of the first row of the group in place of the group's mean
GroupFirst(df, area, col) ==
    LET rows == SelectSeq(df, LAMBDA r : r.CommunityArea = area)
    IN  <<IF rows[1][col] THEN 1 ELSE 0, 1>>

\* the share of the group's rows with the value among all rows of the table
GroupShare(df, area, col) ==
    LET rows == SelectSeq(df, LAMBDA r : r.CommunityArea = area)
    IN  <<Len(SelectSeq(rows, LAMBDA r : r[col])), Len(df)>>

\* mean of a boolean column over the rows of one group, as a fraction
GroupMean(df, area, col) ==
    LET rows == SelectSeq(df, LAMBDA r : r.CommunityArea = area)
    IN  <<Len(SelectSeq(rows, LAMBDA r : r[col])), Len(rows)>>

\* df.groupby('Community Area')[col].mean(): group keys in ascending order
groupby_mean(df, col) ==
    LET u == Uniques([i \in DOMAIN df |-> df[i].CommunityArea])
        entries == [i \in DOMAIN u |->
                      [key |-> u[i], value |-> GroupMean(df, u[i], col)]]
    IN  StableSort(entries, LAMBDA a, b : a.key < b.key)

Lookup(series, k, missing) ==
    IF \E i \in DOMAIN series : series[i].key = k
    THEN series[CHOOSE i \in DOMAIN series : series[i].key = k].value
    ELSE missing

\* pd.DataFrame({...}) of three Series: the common index when the three
\* indexes are equal, else their sorted union
DataFrame(crime_counts, arrest_rate, domestic_rate) ==
    LET k1 == Keys(crime_counts)
        k2 == Keys(arrest_rate)
        k3 == Keys(domestic_rate)
        index == IF k1 = k2 /\ k2 = k3 THEN k1
                 ELSE StableSort(Uniques(k1 \o k2 \o k3), LAMBDA a, b : a < b)
    IN  [i \in DOMAIN index |->
            [CommunityArea |-> index[i],
             CrimeCount    |-> Lookup(crime_counts, index[i], NaN),
             ArrestRate    |-> Lookup(arrest_rate, index[i], NaNFrac),
             DomesticRate  |-> Lookup(domestic_rate, index[i], NaNFrac)]]

Aggregate(filtered) ==
    LET crime_counts  == sort_index(value_counts(
                            [i \in DOMAIN filtered |-> filtered[i].CommunityArea]))
        arrest_rate   == sort_index(groupby_mean(filtered, "Arrest"))
        domestic_rate == sort_index(groupby_mean(filtered, "Domestic"))
    IN  DataFrame(crime_counts, arrest_rate, domestic_rate)

----------------------------------------------------------------------------
(* KMeans(n_clusters=3, random_state=20).fit_predict: k-means++ seeding,   *)
(* then Lloyd's iteration with scikit-learn's defaults (max_iter=300,      *)
(* tol=1e-4), its relocation of empty clusters and its final E-step.       *)
(* The features are scaled by one common factor to integers; a center is   *)
(* the exact fraction sum / w, coordinate by coordinate.                   *)

n_clusters == 3

max_iter == 300

n_features == 3

Den(f) == f[2] \div GCD(f[1], f[2])

FeatureScale(data) ==
    LCMOfSeq([i \in DOMAIN data |->
                LCM(Den(data[i].ArrestRate), Den(data[i].DomesticRate))])

\* the columns Crime Count, Arrest Rate, Domestic Rate, raw (unnormalized)
Features(data) ==
    LET S == FeatureScale(data)
    IN  [i \in DOMAIN data |->
            <<data[i].CrimeCount * S,
              (data[i].ArrestRate[1] * S) \div data[i].ArrestRate[2],
              (data[i].DomesticRate[1] * S) \div data[i].DomesticRate[2]>>]

SqDist(x, y) == SumSeq([j \in 1..n_features |-> (x[j] - y[j]) * (x[j] - y[j])])

\* squared distance of point x to center c is DistNum(x, c) / c.w^2
DistNum(x, c) ==
    SumSeq([j \in 1..n_features |->
              (c.w * x[j] - c.sum[j]) * (c.w * x[j] - c.sum[j])])

Nearer(x, a, b) == DistNum(x, a) * b.w * b.w < DistNum(x, b) * a.w * a.w

\* k-means++: the first center is a uniformly drawn row; each further one is
\* drawn among the rows at a positive distance from the centers chosen so
\* far, and is row 0 when there is none (the potential is 0)
RECURSIVE kmeans_plusplus(_, _, _)
kmeans_plusplus(X, draws, chosen) ==
    IF Len(chosen) = n_clusters THEN chosen
    ELSE LET rows  == [i \in 1..Len(X) |-> i]
             cands == SelectSeq(rows, LAMBDA i :
                         \A c \in Range(chosen) : SqDist(X[i], X[c]) > 0)
             draw  == draws[Len(chosen) + 1]
             pick  == IF chosen = <<>> THEN (draw % Len(X)) + 1
                      ELSE IF cands = <<>> THEN 1
                      ELSE cands[(draw % Len(cands)) + 1]
         IN  kmeans_plusplus(X, draws, Append(chosen, pick))

\* E-step: the nearest center of every row, the lowest id among the nearest
AssignLabels(X, centers) ==
    [i \in DOMAIN X |->
        CHOOSE k \in DOMAIN centers :
            /\ \A j \in DOMAIN centers : ~Nearer(X[i], centers[j], centers[k])
            /\ \A j \in DOMAIN centers :
                  j < k => Nearer(X[i], centers[k], centers[j])]

\* _relocate_empty_clusters: the idx-th empty cluster takes the idx-th
\* farthest row from the cluster that row is labeled with
RECURSIVE Relocate(_, _, _, _, _, _)
Relocate(X, labels, empty, far_from_centers, acc, idx) ==
    IF idx > Len(empty) THEN acc
    ELSE LET new  == empty[idx]
             far  == far_from_centers[idx]
             old  == labels[far]
             sums == [acc.sums EXCEPT
                        ![old] = [j \in 1..n_features |-> @[j] - X[far][j]],
                        ![new] = X[far]]
             w    == [acc.w EXCEPT ![old] = @ - 1, ![new] = 1]
         IN  Relocate(X, labels, empty, far_from_centers,
                      [sums |-> sums, w |-> w], idx + 1)

\* M-step: the mean of the rows of every cluster; an empty cluster is
\* relocated, and a cluster left without rows keeps its old center
UpdateCenters(X, centers, labels, ties_high) ==
    LET ids   == [k \in 1..n_clusters |-> k]
        rows  == [i \in 1..Len(X) |-> i]
        sums0 == [k \in 1..n_clusters |->
                    [j \in 1..n_features |->
                        SumSeq([i \in DOMAIN X |->
                                  IF labels[i] = k THEN X[i][j] ELSE 0])]]
        w0    == [k \in 1..n_clusters |->
                    Cardinality({i \in DOMAIN X : labels[i] = k})]
        empty == SelectSeq(ids, LAMBDA k : w0[k] = 0)
        farther(i, j) ==
            LET ci == centers[labels[i]]
                cj == centers[labels[j]]
            IN  DistNum(X[i], ci) * cj.w * cj.w > DistNum(X[j], cj) * ci.w * ci.w
        far_from_centers ==
            StableSort(IF ties_high THEN Reverse(rows) ELSE rows, farther)
        \* nothing is relocated when every row sits on its own center
        acc   == IF empty = <<>>
                    \/ \A i \in DOMAIN X : DistNum(X[i], centers[labels[i]]) = 0
                 THEN [sums |-> sums0, w |-> w0]
                 ELSE Relocate(X, labels, empty, far_from_centers,
                               [sums |-> sums0, w |-> w0], 1)
    IN  [k \in 1..n_clusters |->
            IF acc.w[k] > 0 THEN [sum |-> acc.sums[k], w |-> acc.w[k]]
            ELSE centers[k]]

\* N^2 times the sum over the features of the variance of the column
VarianceNum(X) ==
    LET n == Len(X)
        col(j) == [i \in DOMAIN X |-> X[i][j]]
        sq(j)  == [i \in DOMAIN X |-> X[i][j] * X[i][j]]
    IN  SumSeq([j \in 1..n_features |->
                  n * SumSeq(sq(j)) - SumSeq(col(j)) * SumSeq(col(j))])

\* center_shift_tot <= tol, where tol = 1e-4 * mean(var(X, axis=0)).  A
\* single center that moved by more than tol decides the comparison; the
\* exact sum over the centers is formed only otherwise.
ShiftWithinTol(X, old, new) ==
    LET n       == Len(X)
        tolNum  == VarianceNum(X)
        tolDen  == n_features * n * n * 10000
        A(k)    == SumSeq([j \in 1..n_features |->
                      (old[k].w * new[k].sum[j] - new[k].w * old[k].sum[j])
                    * (old[k].w * new[k].sum[j] - new[k].w * old[k].sum[j])])
        d(k)    == old[k].w * new[k].w
        L       == LCMOfSeq([k \in 1..n_clusters |-> d(k)])
        total   == SumSeq([k \in 1..n_clusters |->
                      A(k) * (L \div d(k)) * (L \div d(k))])
    IN  IF \E k \in 1..n_clusters :
              A(k) \div (d(k) * d(k)) > tolNum \div tolDen
        THEN FALSE
        ELSE FracLeq(total, L * L, tolNum, tolDen)

RECURSIVE Lloyd(_, _, _, _, _)
Lloyd(X, centers, labels_old, ties_high, i) ==
    LET labels      == AssignLabels(X, centers)
        centers_new == UpdateCenters(X, centers, labels, ties_high)
    IN  IF labels = labels_old
        THEN [cluster_centers_ |-> centers_new, labels_ |-> labels,
              n_iter_ |-> i, stop |-> "strict"]
        ELSE IF ShiftWithinTol(X, centers, centers_new)
        THEN [cluster_centers_ |-> centers_new,
              labels_ |-> AssignLabels(X, centers_new),
              n_iter_ |-> i, stop |-> "tol"]
        ELSE IF i = max_iter
        THEN [cluster_centers_ |-> centers_new,
              labels_ |-> AssignLabels(X, centers_new),
              n_iter_ |-> i, stop |-> "max_iter"]
        ELSE Lloyd(X, centers_new, labels, ties_high, i + 1)

\* KMeans.fit on the three feature columns (n_samples >= n_clusters)
KMeansFit(data, rs) ==
    LET X       == Features(data)
        seeds   == kmeans_plusplus(X, rs.draws, <<>>)
        centers == [k \in 1..n_clusters |-> [sum |-> X[seeds[k]], w |-> 1]]
        fit     == Lloyd(X, centers, [i \in DOMAIN X |-> 0], rs.ties_high, 1)
    IN  [fit EXCEPT !.labels_ = [i \in DOMAIN X |-> @[i] - 1]]
        @@ [scale |-> FeatureScale(data), seeds |-> seeds]

----------------------------------------------------------------------------
(* KMeans_clustering: fit_predict, then the relabeling by centroid         *)

crime_levels == <<"High", "Moderate", "Low">>

\* centroid_df: one row per cluster id, in id order, with the centroid's
\* Crime Count as a fraction
centroid_df(fit) ==
    [k \in 1..n_clusters |->
        [Cluster    |-> k - 1,
         CrimeCount |-> <<fit.cluster_centers_[k].sum[1],
                          fit.cluster_centers_[k].w * fit.scale>>]]

\* an ascending sort read backwards: descending, with tied rows in the
\* reverse of their order in the frame
sort_values_asc_reversed(df) ==
    Reverse(StableSort(df, LAMBDA a, b :
        a.CrimeCount[1] * b.CrimeCount[2] < b.CrimeCount[1] * a.CrimeCount[2]))

\* sort_values(by='Crime Count') with pandas' default, ascending
sort_values_asc(df) ==
    StableSort(df, LAMBDA a, b :
        a.CrimeCount[1] * b.CrimeCount[2] < b.CrimeCount[1] * a.CrimeCount[2])

\* sort_values(by='Crime Count', ascending=False): pandas reverses the rows,
\* sorts them ascending (numpy sorts so few rows by insertion, stably) and
\* reverses the result
sort_values_desc(df) ==
    Reverse(StableSort(Reverse(df), LAMBDA a, b :
        a.CrimeCount[1] * b.CrimeCount[2] < b.CrimeCount[1] * a.CrimeCount[2]))

\* sorted_centroids['Crime Level'].to_dict(): cluster id -> level
cluster_labels(fit) ==
    LET sorted_centroids == sort_values_desc(centroid_df(fit))
    IN  [c \in {sorted_centroids[i].Cluster : i \in DOMAIN sorted_centroids} |->
            crime_levels[CHOOSE i \in DOMAIN sorted_centroids :
                            sorted_centroids[i].Cluster = c]]

\* Series.map(dict): NaN for a key the dict lacks
MapLevel(labels, c) == IF c \in DOMAIN labels THEN labels[c] ELSE "NaN"

\* the labels added, and Crime Count overwritten with the whole part of the
\* centroid's Crime Count
RelabelWithCentroid(data, fit) ==
    LET labels == cluster_labels(fit)
        centroids == centroid_df(fit)
    IN  [i \in DOMAIN data |->
            [CommunityArea |-> data[i].CommunityArea,
             CrimeCount    |-> centroids[fit.labels_[i] + 1].CrimeCount[1]
                                  \div centroids[fit.labels_[i] + 1].CrimeCount[2],
             ArrestRate    |-> data[i].ArrestRate,
             DomesticRate  |-> data[i].DomesticRate,
             Cluster       |-> fit.labels_[i],
             CrimeLevel    |-> MapLevel(labels, fit.labels_[i])]]

\* the body of KMeans_clustering once the estimator is fitted: the columns
\* Cluster and Crime Level are added to every row
Relabel(data, fit) ==
    LET labels == cluster_labels(fit)
    IN  [i \in DOMAIN data |->
            [CommunityArea |-> data[i].CommunityArea,
             CrimeCount    |-> data[i].CrimeCount,
             ArrestRate    |-> data[i].ArrestRate,
             DomesticRate  |-> data[i].DomesticRate,
             Cluster       |-> fit.labels_[i],
             CrimeLevel    |-> MapLevel(labels, fit.labels_[i])]]

KMeans_clustering(data, rs) == Relabel(data, KMeansFit(data, rs))

----------------------------------------------------------------------------
(* pd.merge(..., how='right') and dropna                                   *)

percentage_col == 1..6

\* the rows of the right table in their order, each with the left row of the
\* same key, or with NaN in the left columns when there is none
merge_right(left, right) ==
    LET matches(r) == SelectSeq(left, LAMBDA l :
                          r.CommunityAreaNumber # NaN
                          /\ l.CommunityArea = r.CommunityAreaNumber)
        missing == [CrimeCount |-> NaN, ArrestRate |-> NaNFrac,
                    DomesticRate |-> NaNFrac, Cluster |-> NaN,
                    CrimeLevel |-> "NaN"]
        joined(l, r) == [CommunityAreaNumber |-> r.CommunityAreaNumber,
                         CrimeCount   |-> l.CrimeCount,
                         ArrestRate   |-> l.ArrestRate,
                         DomesticRate |-> l.DomesticRate,
                         Cluster      |-> l.Cluster,
                         CrimeLevel   |-> l.CrimeLevel,
                         Indicators   |-> r.Indicators,
                         Other        |-> r.Other]
        rows(r) == IF matches(r) = <<>> THEN <<joined(missing, r)>>
                   ELSE [i \in DOMAIN matches(r) |-> joined(matches(r)[i], r)]
        RECURSIVE Concat(_)
        Concat(i) == IF i > Len(right) THEN <<>>
                     ELSE rows(right[i]) \o Concat(i + 1)
    IN  Concat(1)

HasNaN(row) ==
    \/ row.CommunityAreaNumber = NaN
    \/ row.CrimeCount = NaN
    \/ IsNaNFrac(row.ArrestRate)
    \/ IsNaNFrac(row.DomesticRate)
    \/ row.Cluster = NaN
    \/ row.CrimeLevel = "NaN"
    \/ \E c \in percentage_col : row.Indicators[c] = NaN
    \/ row.Other = NaN

\* the merged table with its incomplete rows kept
keep_rows(df) == df

dropna(df) == SelectSeq(df, LAMBDA row : ~HasNaN(row))

----------------------------------------------------------------------------
(* logistic_regression: normalize_df, train_test_split, fit and predict    *)

Min(S) == CHOOSE x \in S : \A y \in S : x <= y

Max(S) == CHOOSE x \in S : \A y \in S : x >= y

\* (df - m) / (M - m) with the smallest and largest value of the whole table
normalize_by_table(df) ==
    LET all == {df[i][c] : i \in DOMAIN df, c \in percentage_col}
    IN  [i \in DOMAIN df |->
            [c \in percentage_col |->
                <<df[i][c] - Min(all), Max(all) - Min(all)>>]]

\* (df - df.min()) / (df.max() - df.min()), column by column
normalize_df(df) ==
    LET col(c) == {df[i][c] : i \in DOMAIN df}
    IN  [i \in DOMAIN df |->
            [c \in percentage_col |->
                <<df[i][c] - Min(col(c)), Max(col(c)) - Min(col(c))>>]]

\* a permutation of 1..n drawn from the generator
RECURSIVE Permutation(_, _, _)
Permutation(remaining, draws, k) ==
    IF remaining = <<>> THEN <<>>
    ELSE LET draw == draws[((k - 1) % Len(draws)) + 1]
             at   == (draw % Len(remaining)) + 1
             rest == [i \in 1..(Len(remaining) - 1) |->
                        IF i < at THEN remaining[i] ELSE remaining[i + 1]]
         IN  <<remaining[at]>> \o Permutation(rest, draws, k + 1)

\* floor(0.2 * n) rows for the test partition
n_test_floor(n) == n \div 5

\* ceil(0.2 * n) rows for the test partition, the others for training
n_test(n) == (n + 4) \div 5

train_test_split(X, y, draws) ==
    LET n    == Len(X)
        perm == Permutation([i \in 1..n |-> i], draws, 1)
        test  == SubSeq(perm, 1, n_test(n))
        train == SubSeq(perm, n_test(n) + 1, n)
    IN  [X_train |-> [i \in DOMAIN train |-> X[train[i]]],
         X_test  |-> [i \in DOMAIN test |-> X[test[i]]],
         y_train |-> [i \in DOMAIN train |-> y[train[i]]],
         y_test  |-> [i \in DOMAIN test |-> y[test[i]]],
         train   |-> train,
         test    |-> test]

\* LogisticRegression.fit refuses NaN in X and a target of a single class
FitRaises(X_train, y_train) ==
    \/ \E i \in DOMAIN X_train : \E c \in percentage_col :
          IsNaNFrac(X_train[i][c])
    \/ Cardinality(Range(y_train)) < 2

----------------------------------------------------------------------------
(* classification_report and confusion_matrix                              *)

\* the labels that appear in y_true or y_pred, ascending
unique_labels(y_true, y_predicted) ==
    StableSort(Uniques(y_true \o y_predicted), LAMBDA a, b : a < b)

confusion_matrix(y_true, y_predicted) ==
    LET labels == unique_labels(y_true, y_predicted)
    IN  [i \in DOMAIN labels |-> [j \in DOMAIN labels |->
            Cardinality({t \in DOMAIN y_true :
                y_true[t] = labels[i] /\ y_predicted[t] = labels[j]})]]

classification_report(y_true, y_predicted) ==
    LET labels == unique_labels(y_true, y_predicted)
        tp(l)  == Cardinality({t \in DOMAIN y_true :
                      y_true[t] = l /\ y_predicted[t] = l})
        sup(l) == Cardinality({t \in DOMAIN y_true : y_true[t] = l})
        prd(l) == Cardinality({t \in DOMAIN y_true : y_predicted[t] = l})
    IN  [labels |-> labels,
         rows   |-> [i \in DOMAIN labels |->
                       [precision |-> <<tp(labels[i]), prd(labels[i])>>,
                        recall    |-> <<tp(labels[i]), sup(labels[i])>>,
                        support   |-> sup(labels[i])]],
         accuracy |-> <<Cardinality({t \in DOMAIN y_true :
                           y_true[t] = y_predicted[t]}), Len(y_true)>>]

----------------------------------------------------------------------------
(* The inputs the runs are checked on *)

Incident(area, year, arrest, domestic) ==
    [CommunityArea |-> area, Year |-> year,
     Arrest |-> arrest, Domestic |-> domestic]

\* rows of FILE_1: community areas 1, 2 and 3 inside 2008-2012, area 0, a
\* missing area, and records just outside the range of years
RecordPool ==
    { Incident(10, 2008, TRUE, FALSE),
      Incident(10, 2012, FALSE, TRUE),
      Incident(20, 2010, TRUE, TRUE),
      Incident(30, 2009, FALSE, FALSE),
      Incident(0, 2010, TRUE, FALSE),
      Incident(NaN, 2011, FALSE, TRUE),
      Incident(40, 2007, TRUE, FALSE),
      Incident(20, 2013, FALSE, FALSE) }

CrimeTables == UNION {[1..n -> RecordPool] : n \in 0..MaxRows}

Census(number, indicators, other) ==
    [CommunityAreaNumber |-> number, Indicators |-> indicators, Other |-> other]

\* tables of FILE_2: every area of FILE_1 and one more; with the city-wide
\* row that has no area number; with gaps
CensusPool ==
    { << Census(1, <<10, 10, 10, 10, 10, 10>>, 0),
         Census(2, <<30, 50, 30, 30, 30, 30>>, 0),
         Census(3, <<50, 30, 50, 50, 50, 50>>, 0),
         Census(5, <<30, 10, 50, 10, 30, 50>>, 0) >>,
      << Census(3, <<10, 10, 10, 10, 10, 10>>, 0),
         Census(1, <<30, 50, 30, 30, 30, 30>>, 0),
         Census(NaN, <<50, 30, 50, 50, 50, NaN>>, 0) >>,
      << Census(1, <<10, 10, 10, 10, 10, 10>>, 0),
         Census(2, <<30, 50, NaN, 30, 30, 30>>, 0),
         Census(3, <<50, 30, 50, 50, 50, 50>>, NaN),
         Census(4, <<30, 10, 50, 10, 30, 50>>, 0) >> }

\* the columns of FILE_1 that the pipeline reads
AllColumns == {"CommunityArea", "Year", "Arrest", "Domestic"}

\* FILE_1 with all of them, or with one of them missing
ColumnSets == {AllColumns} \cup {AllColumns \ {c} : c \in AllColumns}

RandomState(d1, d2, d3, high) == [draws |-> <<d1, d2, d3>>, ties_high |-> high]

Unset == <<>>

----------------------------------------------------------------------------
(* main *)

Init ==
    /\ pc = "start"
    /\ error = "none"
    /\ df_crime \in CrimeTables
    /\ columns \in ColumnSets
    \* a run on a table that lacks a column ends before it reads FILE_2 or
    \* draws from a generator
    /\ \/ /\ columns = AllColumns
          /\ df_census \in CensusPool
          /\ random_state \in {RandomState(0, 0, 0, TRUE),
                                RandomState(2, 1, 0, FALSE)}
       \/ /\ columns # AllColumns
          /\ df_census = <<>>
          /\ random_state = RandomState(0, 0, 0, TRUE)
    /\ split_state = <<1, 2, 0, 1>>
    /\ df_filtered = Unset
    /\ community_data = Unset
    /\ kmeans = Unset
    /\ merged_df = Unset
    /\ independent = Unset
    /\ split = Unset
    /\ y_pred = Unset
    /\ report = Unset
    /\ conf_matrix = Unset

Fail(exception) ==
    /\ pc' = "failed"
    /\ error' = exception

\* df_filtered = filter_df(df_crime); df_crime['Year'] and
\* df_crime['Community Area'] raise KeyError on a missing column
Filter ==
    /\ pc = "start"
    /\ IF KeyError(columns, "Year") \/ KeyError(columns, "CommunityArea")
       THEN /\ Fail("KeyError")
            /\ UNCHANGED df_filtered
       ELSE /\ df_filtered' = filter_df(df_crime)
            /\ pc' = "filtered"
            /\ UNCHANGED error
    /\ UNCHANGED <<df_crime, columns, df_census, random_state, split_state,
                   community_data, kmeans, merged_df, independent, split,
                   y_pred, report, conf_matrix>>

\* crime_counts, arrest_rate, domestic_rate, community_data = pd.DataFrame(...);
\* groupby(...)['Arrest'] and ['Domestic'] raise KeyError on a missing column
Gather ==
    /\ pc = "filtered"
    /\ IF KeyError(columns, "Arrest") \/ KeyError(columns, "Domestic")
       THEN /\ Fail("KeyError")
            /\ UNCHANGED community_data
       ELSE /\ community_data' = Aggregate(df_filtered)
            /\ pc' = "aggregated"
            /\ UNCHANGED error
    /\ UNCHANGED <<df_crime, columns, df_census, random_state, split_state,
                   df_filtered, kmeans, merged_df, independent, split,
                   y_pred, report, conf_matrix>>

\* community_data = KMeans_clustering(community_data); KMeans raises
\* ValueError on fewer samples than clusters
Cluster ==
    /\ pc = "aggregated"
    /\ IF Len(community_data) < n_clusters
       THEN /\ Fail("ValueError")
            /\ UNCHANGED <<community_data, kmeans>>
       ELSE /\ \E fit \in {KMeansFit(community_data, random_state)} :
                  /\ kmeans' = fit
                  /\ community_data' = Relabel(community_data, fit)
            /\ pc' = "clustered"
            /\ UNCHANGED error
    /\ UNCHANGED <<df_crime, columns, df_census, random_state, split_state,
                   df_filtered, merged_df, independent, split, y_pred,
                   report, conf_matrix>>

\* merged_df = pd.merge(..., how='right'); merged_df = merged_df.dropna()
Merge ==
    /\ pc = "clustered"
    /\ merged_df' = dropna(merge_right(community_data, df_census))
    /\ pc' = "merged"
    /\ UNCHANGED <<error, df_crime, columns, df_census, random_state, split_state,
                   df_filtered, community_data, kmeans, independent, split,
                   y_pred, report, conf_matrix>>

\* logistic_regression: independent = normalize_df(merged_df[percentage_col])
Normalize ==
    /\ pc = "merged"
    /\ independent' = normalize_df([i \in DOMAIN merged_df |->
                                      merged_df[i].Indicators])
    /\ pc' = "normalized"
    /\ UNCHANGED <<error, df_crime, columns, df_census, random_state, split_state,
                   df_filtered, community_data, kmeans, merged_df, split,
                   y_pred, report, conf_matrix>>

\* logistic_regression: train_test_split(independent, merged_df['Cluster'],
\* test_size=0.2, random_state=44); it raises ValueError when a partition
\* would be empty
Split ==
    /\ pc = "normalized"
    /\ IF Len(independent) - n_test(Len(independent)) = 0
       THEN /\ Fail("ValueError")
            /\ UNCHANGED split
       ELSE /\ split' = train_test_split(independent,
                            [i \in DOMAIN merged_df |-> merged_df[i].Cluster],
                            split_state)
            /\ pc' = "split"
            /\ UNCHANGED error
    /\ UNCHANGED <<df_crime, columns, df_census, random_state, split_state,
                   df_filtered, community_data, kmeans, merged_df,
                   independent, y_pred, report, conf_matrix>>

\* logistic_regression: model.fit(X_train, y_train); model.predict(X_test).
\* The model predicts one of the classes it was trained on.
FitPredict ==
    /\ pc = "split"
    /\ IF FitRaises(split.X_train, split.y_train)
       THEN /\ Fail("ValueError")
            /\ UNCHANGED y_pred
       ELSE /\ y_pred' \in [DOMAIN split.y_test -> Range(split.y_train)]
            /\ pc' = "fitted"
            /\ UNCHANGED error
    /\ UNCHANGED <<df_crime, columns, df_census, random_state, split_state,
                   df_filtered, community_data, kmeans, merged_df,
                   independent, split, report, conf_matrix>>

\* print(classification_report(y_test, y_pred))
Report ==
    /\ pc = "fitted"
    /\ report' = classification_report(split.y_test, y_pred)
    /\ pc' = "reported"
    /\ UNCHANGED <<error, df_crime, columns, df_census, random_state, split_state,
                   df_filtered, community_data, kmeans, merged_df,
                   independent, split, y_pred, conf_matrix>>

\* plot_confusion followed by a return to the report
PlotConfusionAndReportAgain ==
    /\ pc = "reported"
    /\ conf_matrix' = confusion_matrix(split.y_test, y_pred)
    /\ pc' = "fitted"
    /\ UNCHANGED <<error, df_crime, columns, df_census, random_state, split_state,
                   df_filtered, community_data, kmeans, merged_df,
                   independent, split, y_pred, report>>

\* plot_confusion(y_test, y_pred)
PlotConfusion ==
    /\ pc = "reported"
    /\ conf_matrix' = confusion_matrix(split.y_test, y_pred)
    /\ pc' = "done"
    /\ UNCHANGED <<error, df_crime, columns, df_census, random_state, split_state,
                   df_filtered, community_data, kmeans, merged_df,
                   independent, split, y_pred, report>>

Next ==
    \/ Filter
    \/ Gather
    \/ Cluster
    \/ Merge
    \/ Normalize
    \/ Split
    \/ FitPredict
    \/ Report
    \/ PlotConfusion

Spec == Init /\ [][Next]_vars

----------------------------------------------------------------------------
(* The aggregation and the clustering of main on their own: the run from   *)
(* the incident table to the labeled aggregate table, which reads nothing  *)
(* of the socioeconomic table.                                             *)

InitAggregate ==
    /\ pc = "start"
    /\ error = "none"
    /\ df_crime \in CrimeTables
    /\ columns = AllColumns
    /\ df_census = Unset
    /\ random_state \in {RandomState(0, 0, 0, TRUE), RandomState(2, 1, 0, FALSE)}
    /\ split_state = Unset
    /\ df_filtered = Unset
    /\ community_data = Unset
    /\ kmeans = Unset
    /\ merged_df = Unset
    /\ independent = Unset
    /\ split = Unset
    /\ y_pred = Unset
    /\ report = Unset
    /\ conf_matrix = Unset

NextAggregate ==
    \/ Filter
    \/ Gather
    \/ Cluster

SpecAggregate == InitAggregate /\ [][NextAggregate]_vars

----------------------------------------------------------------------------
(* KMeans_clustering on its own: its argument is drawn from the aggregate  *)
(* tables of up to MaxAreas community areas, and every draw of the         *)
(* generator that tells two runs on such a table apart is tried.           *)

Aggregated(area, count, arrests, domestics) ==
    [CommunityArea |-> area, CrimeCount |-> count,
     ArrestRate |-> <<arrests, count>>, DomesticRate |-> <<domestics, count>>]

\* <<crime count, arrests, domestic incidents>> of one area
StatPool == { <<1, 0, 0>>, <<2, 0, 0>>, <<2, 1, 0>>, <<4, 0, 0>>, <<405, 0, 0>> }

AggregateTables ==
    UNION { { [i \in 1..n |-> Aggregated(i, f[i][1], f[i][2], f[i][3])] :
                f \in [1..n -> StatPool] } : n \in 0..MaxAreas }

RandomStates ==
    { RandomState(0, 0, 1, TRUE), RandomState(1, 0, 0, FALSE),
      RandomState(2, 1, 0, TRUE), RandomState(0, 1, 0, FALSE),
      RandomState(1, 1, 1, TRUE), RandomState(2, 0, 1, FALSE) }

InitCluster ==
    /\ pc = "aggregated"
    /\ error = "none"
    /\ df_crime = Unset
    /\ columns = AllColumns
    /\ df_census = Unset
    /\ random_state \in RandomStates
    /\ split_state = Unset
    /\ df_filtered = Unset
    /\ community_data \in AggregateTables
    /\ kmeans = Unset
    /\ merged_df = Unset
    /\ independent = Unset
    /\ split = Unset
    /\ y_pred = Unset
    /\ report = Unset
    /\ conf_matrix = Unset

SpecCluster == InitCluster /\ [][Cluster]_vars

\* the same tables with two of the streams of draws
InitFrame ==
    /\ pc = "aggregated"
    /\ error = "none"
    /\ df_crime = Unset
    /\ columns = AllColumns
    /\ df_census = Unset
    /\ random_state \in {RandomState(0, 0, 1, TRUE), RandomState(2, 0, 1, FALSE)}
    /\ split_state = Unset
    /\ df_filtered = Unset
    /\ community_data \in AggregateTables
    /\ kmeans = Unset
    /\ merged_df = Unset
    /\ independent = Unset
    /\ split = Unset
    /\ y_pred = Unset
    /\ report = Unset
    /\ conf_matrix = Unset

SpecFrame == InitFrame /\ [][Cluster]_vars

----------------------------------------------------------------------------
(* logistic_regression and the report on their own: the joined table is    *)
(* drawn from the tables of up to MaxJoined complete rows.                 *)

\* a joined row of an area in cluster c: the three clusters are the areas
\* with 405, 4 and 1 crimes
Joined(number, c, indicators) ==
    [CommunityAreaNumber |-> number,
     CrimeCount   |-> <<405, 4, 1>>[c + 1],
     ArrestRate   |-> <<0, <<405, 4, 1>>[c + 1]>>,
     DomesticRate |-> <<0, <<405, 4, 1>>[c + 1]>>,
     Cluster      |-> c,
     CrimeLevel   |-> crime_levels[c + 1],
     Indicators   |-> indicators,
     Other        |-> 0]

\* <<cluster id, indicators>> of one joined row
JoinedPool ==
    { <<0, <<10, 10, 10, 10, 10, 10>> >>,
      <<1, <<10, 10, 10, 10, 10, 10>> >>,
      <<1, <<30, 50, 30, 30, 30, 30>> >>,
      <<2, <<50, 30, 50, 50, 50, 50>> >>,
      <<0, <<30, 10, 50, 10, 30, 50>> >>,
      <<2, <<30, 10, 50, 10, 30, 50>> >> }

JoinedTables ==
    UNION { { [i \in 1..n |-> Joined(i, f[i][1], f[i][2])] :
                f \in [1..n -> JoinedPool] } : n \in 0..MaxJoined }

InitEval ==
    /\ pc = "merged"
    /\ error = "none"
    /\ df_crime = Unset
    /\ columns = AllColumns
    /\ df_census = Unset
    /\ random_state = Unset
    /\ split_state \in {<<0, 0, 0, 0>>, <<1, 2, 0, 1>>, <<3, 1, 1, 0>>}
    /\ df_filtered = Unset
    /\ community_data = Unset
    /\ kmeans = Unset
    /\ merged_df \in JoinedTables
    /\ independent = Unset
    /\ split = Unset
    /\ y_pred = Unset
    /\ report = Unset
    /\ conf_matrix = Unset

NextEval ==
    \/ Normalize
    \/ Split
    \/ FitPredict
    \/ Report
    \/ PlotConfusion

SpecEval == InitEval /\ [][NextEval]_vars

----------------------------------------------------------------------------
(* Properties of KMeans_clustering, checked under SpecCluster *)

Clustered == pc = "clustered"

ClusterIds == 0..(n_clusters - 1)

Center(c) == kmeans.cluster_centers_[c + 1]

\* centroid a has a larger Crime Count than centroid b
CentroidAbove(a, b) ==
    Center(a).sum[1] * Center(b).w > Center(b).sum[1] * Center(a).w

Members(c) == {i \in DOMAIN community_data : community_data[i].Cluster = c}

\* the centroid of c is the mean of the three statistics of its areas
IsMeanOfMembers(c) ==
    LET X == Features([i \in DOMAIN community_data |->
                 [CrimeCount   |-> community_data[i].CrimeCount,
                  ArrestRate   |-> community_data[i].ArrestRate,
                  DomesticRate |-> community_data[i].DomesticRate]])
    IN  \A j \in 1..n_features :
            Center(c).sum[j] * Cardinality(Members(c))
              = Center(c).w * SumSeq([i \in DOMAIN X |->
                                  IF i \in Members(c) THEN X[i][j] ELSE 0])

\* no centroid is nearer to area i than the centroid of its own cluster
IsNearest(i) ==
    LET X == Features([k \in DOMAIN community_data |->
                 [CrimeCount   |-> community_data[k].CrimeCount,
                  ArrestRate   |-> community_data[k].ArrestRate,
                  DomesticRate |-> community_data[k].DomesticRate]])
    IN  \A c \in ClusterIds :
            ~Nearer(X[i], Center(c), Center(community_data[i].Cluster))

\* C1: after relabeling, every community area whose cluster's centroid Crime
\* Count differs from the other two centroids' carries the tier of that
\* centroid's rank, whatever the cluster's id: "High" with no centroid above
\* it, "Moderate" with one, "Low" with two.
C1_TierByCentroidRank ==
    Clustered =>
        \A i \in DOMAIN community_data :
            LET c == community_data[i].Cluster
                above == {d \in ClusterIds : CentroidAbove(d, c)}
                tied  == {d \in ClusterIds \ {c} :
                            ~CentroidAbove(d, c) /\ ~CentroidAbove(c, d)}
            IN  tied = {} =>
                    community_data[i].CrimeLevel
                        = crime_levels[Cardinality(above) + 1]

\* C1 witness: three clusters with three different centroid counts, where
\* the cluster of the highest count is not cluster 0
C1_Witness ==
    /\ Clustered
    /\ \A c, d \in ClusterIds : c # d => CentroidAbove(c, d) \/ CentroidAbove(d, c)
    /\ \E i, j \in DOMAIN community_data :
          /\ community_data[i].Cluster = 2
          /\ community_data[i].CrimeLevel = "High"
          /\ community_data[j].Cluster = 0
          /\ community_data[j].CrimeLevel = "Low"

----------------------------------------------------------------------------
(* Properties of the aggregation and the join, checked under Spec; the  *)
(* invariance under reordering is checked under SpecAggregate           *)

\* the stages at which community_data holds the aggregates: the aggregation
\* is done, and the run did not end in it or before it
Gathered == pc \notin {"start", "filtered"} /\ error # "KeyError"

\* the records of FILE_1 of the years 2008 to 2012 with a community area
\* that is present and not 0
Qualifying ==
    {i \in DOMAIN df_crime :
        /\ df_crime[i].Year \in 2008..2012
        /\ df_crime[i].CommunityArea # NaN
        /\ df_crime[i].CommunityArea # 0}

\* the whole number a community area kept in tenths stands for
AreaId(i) == df_crime[i].CommunityArea \div 10

AreaIds == {community_data[i].CommunityArea : i \in DOMAIN community_data}

\* C2: the community areas of the aggregate table are exactly the areas of
\* the qualifying records (year in 2008..2012, area present and not 0), each
\* with one row; so there is no row for area 0 and none for an area without a
\* qualifying record.
C2_QualifyingAreas ==
    Gathered =>
        /\ AreaIds = {AreaId(i) : i \in Qualifying}
        /\ \A i, j \in DOMAIN community_data :
              community_data[i].CommunityArea = community_data[j].CommunityArea
                  => i = j
        /\ 0 \notin AreaIds

\* C2 witness: an aggregate table of an incident table that holds a record of
\* 2008, one of 2012, and a record that does not qualify
C2_Witness ==
    /\ pc = "aggregated"
    /\ community_data # <<>>
    /\ \E i, j \in Qualifying :
          df_crime[i].Year = 2008 /\ df_crime[j].Year = 2012
    /\ \E i \in DOMAIN df_crime : i \notin Qualifying

\* C3: every community area of the joined table has a row in the aggregate
\* table and a row in the socioeconomic table.
C3_JoinedInBoth ==
    merged_df # Unset =>
        \A r \in DOMAIN merged_df :
            /\ merged_df[r].CommunityAreaNumber \in AreaIds
            /\ \E k \in DOMAIN df_census :
                  df_census[k].CommunityAreaNumber
                      = merged_df[r].CommunityAreaNumber

\* C3 witness: a joined table with rows, made from a socioeconomic table that
\* has a record of an area without an aggregate
C3_Witness ==
    /\ pc = "merged"
    /\ merged_df # <<>>
    /\ \E k \in DOMAIN df_census :
          /\ df_census[k].CommunityAreaNumber # NaN
          /\ df_census[k].CommunityAreaNumber \notin AreaIds

\* the incident table with its records in the order p
Reordered(p) == [i \in DOMAIN df_crime |-> df_crime[p[i]]]

\* the aggregate rows without the labels that KMeans_clustering adds
Statistics(data) ==
    [i \in DOMAIN data |->
        [CommunityArea |-> data[i].CommunityArea,
         CrimeCount    |-> data[i].CrimeCount,
         ArrestRate    |-> data[i].ArrestRate,
         DomesticRate  |-> data[i].DomesticRate]]

\* C4: for every reordering of the incident records the aggregate table is
\* the same, with its rows ascending by community area, and KMeans_clustering
\* of that one table with the same draws of the generator gives every
\* community area the cluster id and the tier it has.
C4_PermutationInvariant ==
    Gathered =>
        /\ \A i, j \in DOMAIN community_data :
              i < j => community_data[i].CommunityArea
                          < community_data[j].CommunityArea
        /\ pc \in {"aggregated", "clustered"} =>
              \A p \in Permutations(DOMAIN df_crime) :
                  Aggregate(filter_df(Reordered(p))) = Statistics(community_data)
        /\ Clustered =>
              KMeans_clustering(Statistics(community_data), random_state)
                  = community_data

\* C4 witness: a clustered table of an incident table whose records are not
\* in the order of their community areas
C4_Witness ==
    /\ Clustered
    /\ \E i, j \in Qualifying : i < j /\ AreaId(i) > AreaId(j)

\* the qualifying records of one community area
RecordsOf(area) == {i \in Qualifying : AreaId(i) = area}

\* C8: the arrest rate of every aggregate is the mean of Arrest and its
\* domestic rate the mean of Domestic over the qualifying records of its
\* area, and both lie in [0, 1].
C8_RatesAreMeans ==
    Gathered =>
        \A k \in DOMAIN community_data :
            LET row  == community_data[k]
                recs == RecordsOf(row.CommunityArea)
                n    == Cardinality(recs)
                arrests   == Cardinality({i \in recs : df_crime[i].Arrest})
                domestics == Cardinality({i \in recs : df_crime[i].Domestic})
            IN  /\ row.ArrestRate[2] > 0
                /\ row.DomesticRate[2] > 0
                /\ row.ArrestRate[1] * n = arrests * row.ArrestRate[2]
                /\ row.DomesticRate[1] * n = domestics * row.DomesticRate[2]
                /\ 0 <= row.ArrestRate[1]
                /\ row.ArrestRate[1] <= row.ArrestRate[2]
                /\ 0 <= row.DomesticRate[1]
                /\ row.DomesticRate[1] <= row.DomesticRate[2]

\* C8 witness: an area with an arrest in one of its two qualifying records,
\* next to another area
C8_Witness ==
    /\ pc = "aggregated"
    /\ Len(community_data) >= 2
    /\ \E k \in DOMAIN community_data :
          /\ Cardinality(RecordsOf(community_data[k].CommunityArea)) = 2
          /\ community_data[k].ArrestRate[1] * 2
                = community_data[k].ArrestRate[2]

----------------------------------------------------------------------------
(* Properties of logistic_regression and the report, checked under SpecEval *)

Normalized == independent # Unset

\* the values of indicator column c in the joined table
Column(c) == {merged_df[i].Indicators[c] : i \in DOMAIN merged_df}

IsConstant(c) == Max(Column(c)) = Min(Column(c))

\* C6: every indicator column that is not constant is mapped on its own by
\* (x - min)/(max - min) over the joined table: its minimum becomes 0, its
\* maximum 1, every value lies in [0, 1], and 30 becomes 1/2 in a column with
\* minimum 10 and maximum 50.
C6_MinMaxPerColumn ==
    Normalized =>
        \A c \in percentage_col : ~IsConstant(c) =>
            \A i \in DOMAIN merged_df :
                LET x == merged_df[i].Indicators[c]
                    v == independent[i][c]
                IN  /\ v[2] > 0
                    /\ 0 <= v[1] /\ v[1] <= v[2]
                    /\ v[1] * (Max(Column(c)) - Min(Column(c)))
                          = (x - Min(Column(c))) * v[2]
                    /\ x = Min(Column(c)) => v[1] = 0
                    /\ x = Max(Column(c)) => v[1] = v[2]
                    /\ (Min(Column(c)) = 10 /\ Max(Column(c)) = 50 /\ x = 30)
                          => 2 * v[1] = v[2]

\* C6 witness: a normalized table with a column of minimum 10 and maximum 50
\* that holds 30, and another column with another minimum or maximum
C6_Witness ==
    /\ pc = "normalized"
    /\ merged_df # <<>>
    /\ \E c \in percentage_col :
          /\ Min(Column(c)) = 10 /\ Max(Column(c)) = 50 /\ 30 \in Column(c)
    /\ \E c \in percentage_col :
          ~IsConstant(c) /\ (Min(Column(c)) # 10 \/ Max(Column(c)) # 50)

\* the number of test rows of class c
TestRows(c) == Cardinality({t \in DOMAIN split.y_test : split.y_test[t] = c})

\* C7: the confusion matrix is a 3x3 matrix, rows the actual and columns the
\* predicted class in the order 0, 1, 2, and the sum of row c is the number
\* of test rows of class c.
C7_Matrix3x3 ==
    pc = "done" =>
        /\ Len(conf_matrix) = n_clusters
        /\ \A c \in ClusterIds :
              /\ Len(conf_matrix[c + 1]) = n_clusters
              /\ SumSeq(conf_matrix[c + 1]) = TestRows(c)

\* the test partition has a row of each of the three classes
TestCoversClasses == \A c \in ClusterIds : TestRows(c) > 0

\* C9: no classification report and no confusion matrix is produced from a
\* test partition that lacks one of the classes 0, 1, 2; such a run ends
\* with InsufficientData.
C9_InsufficientData ==
    /\ pc \in {"reported", "done"} => TestCoversClasses
    /\ (split # Unset /\ ~TestCoversClasses)
          => (pc = "failed" /\ error = "InsufficientData")

\* C10: a constant indicator column ends the run with DegenerateColumn or is
\* filled with 0; neither the train/test split nor the classifier is handed
\* an undefined value.
C10_DegenerateColumn ==
    /\ Normalized =>
          \A c \in percentage_col : IsConstant(c) =>
              \A i \in DOMAIN independent : independent[i][c] = <<0, 1>>
    /\ split # Unset =>
          \A c \in percentage_col :
              /\ \A i \in DOMAIN split.X_train : ~IsNaNFrac(split.X_train[i][c])
              /\ \A i \in DOMAIN split.X_test : ~IsNaNFrac(split.X_test[i][c])

----------------------------------------------------------------------------
(* Properties of the failures of main, checked under Spec *)

\* C11 as claimed: an incident table that lacks one of the four columns ends
\* the run with MissingColumn before an aggregate is produced.
C11_MissingColumn ==
    columns # AllColumns =>
        /\ community_data = Unset
        /\ pc \in {"start", "filtered", "failed"}
        /\ pc = "failed" => error = "MissingColumn"

\* C11: an incident table that lacks one of the four columns ends the run
\* with pandas' KeyError, in filter_df for Year and Community Area and in the
\* aggregation for Arrest and Domestic, before the aggregate table is
\* produced; no value stands in for the missing column.
C11_KeyError ==
    columns # AllColumns =>
        /\ community_data = Unset
        /\ kmeans = Unset /\ merged_df = Unset /\ report = Unset
        /\ pc \in {"start", "filtered", "failed"}
        /\ pc = "failed" => error = "KeyError"
        /\ pc = "filtered" => {"Year", "CommunityArea"} \subseteq columns
        /\ df_filtered # Unset => {"Year", "CommunityArea"} \subseteq columns

\* C11 witness: the run on a table without the Arrest column has failed in
\* the aggregation, after filter_df kept some of its records
C11_Witness ==
    /\ pc = "failed"
    /\ error = "KeyError"
    /\ "Arrest" \notin columns
    /\ df_filtered # <<>>
    /\ community_data = Unset

\* C12: when no incident record survives filter_df, the run ends with
\* InvalidYearRange as soon as the filter has returned: no aggregate table is
\* built, and no clustering, join, split, fit or report is run.
C12_InvalidYearRange ==
    (columns = AllColumns /\ Qualifying = {} /\ pc \notin {"start", "filtered"})
        => (pc = "failed" /\ error = "InvalidYearRange")

----------------------------------------------------------------------------
(* The order of the stages of main, checked under Spec *)

\* the stages of main in the order of its statements; KMeans_clustering
\* clusters and relabels in one call
Stages ==
    <<"start", "filtered", "aggregated", "clustered", "merged", "normalized",
      "split", "fitted", "reported", "done">>

StageOf(p) == CHOOSE k \in DOMAIN Stages : Stages[k] = p

\* what the stages produce, in the order of Stages from "filtered" on
Products ==
    <<df_filtered, community_data, kmeans, merged_df, independent, split,
      y_pred, report, conf_matrix>>

\* what a later stage produces does not exist yet, and a failed run has no
\* report and no confusion matrix
LaterUnset ==
    /\ pc # "failed" =>
          \A k \in DOMAIN Products :
              k >= StageOf(pc) => Products[k] = Unset
    /\ pc = "failed" => report = Unset /\ conf_matrix = Unset

\* a step of the run finishes the stage that follows the last finished one,
\* or ends the run in that stage with an exception
StepInOrder ==
    /\ pc \notin {"done", "failed"}
    /\ \/ pc' = Stages[StageOf(pc) + 1] /\ error' = "none"
       \/ pc' = "failed" /\ error' # "none"

\* C13: every step of a run finishes the next stage in the order filter,
\* aggregate, cluster and relabel, join, normalize, split, fit, report,
\* confusion matrix, or ends the run there with an exception; so each stage
\* runs at most once and after its predecessor, a completed or failed run
\* takes no further step, and a run ends after at most nine stages.  What a
\* later stage produces does not exist before that stage has run, and a
\* failed run has no report.
C13_PipelineOrder ==
    [][StepInOrder /\ LaterUnset /\ LaterUnset']_vars

\* C13 witness: a completed run, with its report and its confusion matrix
C13_Witness ==
    /\ pc = "done"
    /\ error = "none"
    /\ report # Unset
    /\ conf_matrix # Unset

----------------------------------------------------------------------------
(* More properties of KMeans_clustering, checked under SpecCluster *)

\* the centroids of a and b have the same Crime Count
CentroidsTied(a, b) == ~CentroidAbove(a, b) /\ ~CentroidAbove(b, a)

\* the rank of a tier: 1 for "High", 2 for "Moderate", 3 for "Low"
TierRank(level) == CHOOSE k \in DOMAIN crime_levels : crime_levels[k] = level

\* C14: whatever centroids are tied in Crime Count, the relabeling returns,
\* gives the three tiers to the three cluster ids, one each, ranks a lower
\* cluster id above a higher one whose centroid is tied with it, and every
\* community area carries the tier of its cluster id.
C14_TieBreak ==
    Clustered =>
        LET labels == cluster_labels(kmeans)
        IN  /\ DOMAIN labels = ClusterIds
            /\ {labels[c] : c \in ClusterIds} = Range(crime_levels)
            /\ \A c, d \in ClusterIds : c # d => labels[c] # labels[d]
            /\ \A c, d \in ClusterIds :
                  (c < d /\ CentroidsTied(c, d))
                      => TierRank(labels[c]) < TierRank(labels[d])
            /\ \A i \in DOMAIN community_data :
                  community_data[i].CrimeLevel
                      = labels[community_data[i].Cluster]

\* C14 witness: a clustered table with two clusters of community areas whose
\* centroids are tied in Crime Count
C14_Witness ==
    /\ Clustered
    /\ \E c, d \in ClusterIds :
          /\ c < d
          /\ CentroidsTied(c, d)
          /\ Members(c) # {}
          /\ Members(d) # {}

----------------------------------------------------------------------------
(* The join as an inner join, checked under Spec *)

\* the community areas of the joined table
JoinedIds == {merged_df[r].CommunityAreaNumber : r \in DOMAIN merged_df}

\* the area has a labeled aggregate and a socioeconomic record with its six
\* indicators
CompleteInBoth(area) ==
    /\ \E i \in DOMAIN community_data :
          /\ community_data[i].CommunityArea = area
          /\ community_data[i].Cluster \in ClusterIds
          /\ community_data[i].CrimeLevel \in Range(crime_levels)
    /\ \E k \in DOMAIN df_census :
          /\ df_census[k].CommunityAreaNumber = area
          /\ \A c \in percentage_col : df_census[k].Indicators[c] # NaN

\* C15: a community area is in the joined table exactly when it has an
\* aggregate with its cluster id and tier and a socioeconomic record with its
\* six indicators; the joined rows carry the values of the two tables.
C15_InnerJoin ==
    pc = "merged" =>
        /\ \A area \in AreaIds \cup {df_census[k].CommunityAreaNumber :
                                       k \in DOMAIN df_census} :
              area \in JoinedIds <=> (area # NaN /\ CompleteInBoth(area))
        /\ \A r \in DOMAIN merged_df :
              \E k \in DOMAIN df_census :
                  /\ df_census[k].CommunityAreaNumber
                        = merged_df[r].CommunityAreaNumber
                  /\ df_census[k].Indicators = merged_df[r].Indicators

----------------------------------------------------------------------------
(* The train/test split, checked under SpecEval *)

\* C16: the train and the test partition of a joined table are disjoint and
\* hold every joined row once; the test partition holds 20% of the rows,
\* rounded up, and the train partition the others; every row keeps its
\* normalized indicators and its integer cluster id as target; and the
\* partition is the one that the table and the draws of the seed determine.
C16_Split ==
    split # Unset =>
        LET n     == Len(merged_df)
            train == split.train
            test  == split.test
        IN  /\ Range(train) \cap Range(test) = {}
            /\ Range(train) \cup Range(test) = 1..n
            /\ Len(train) + Len(test) = n
            /\ 5 * Len(test) >= n
            /\ 5 * (Len(test) - 1) < n
            /\ Len(split.X_train) = Len(train) /\ Len(split.y_train) = Len(train)
            /\ Len(split.X_test) = Len(test) /\ Len(split.y_test) = Len(test)
            /\ \A i \in DOMAIN train :
                  /\ split.X_train[i] = independent[train[i]]
                  /\ split.y_train[i] = merged_df[train[i]].Cluster
                  /\ split.y_train[i] \in ClusterIds
            /\ \A i \in DOMAIN test :
                  /\ split.X_test[i] = independent[test[i]]
                  /\ split.y_test[i] = merged_df[test[i]].Cluster
                  /\ split.y_test[i] \in ClusterIds
            /\ split = train_test_split(independent,
                          [i \in DOMAIN merged_df |-> merged_df[i].Cluster],
                          split_state)

\* C16 witness: four joined rows of more than one cluster, split into three
\* train rows and a test row that is not the first row of the table
C16_Witness ==
    /\ pc = "split"
    /\ Len(merged_df) = 4
    /\ Len(split.train) = 3
    /\ split.test # <<1>>
    /\ Cardinality(Range(split.y_train)) > 1

----------------------------------------------------------------------------
(* The effect of KMeans_clustering on its frame, checked under SpecFrame *)

\* the three statistics of the rows, and nothing else
StatisticsOnly(data) ==
    [i \in DOMAIN data |->
        [CrimeCount   |-> data[i].CrimeCount,
         ArrestRate   |-> data[i].ArrestRate,
         DomesticRate |-> data[i].DomesticRate]]

\* C17: a call of KMeans_clustering that returns leaves the community areas,
\* their order and their three statistics as they were and adds to every row
\* its cluster id and its tier; the cluster ids are those of a clustering of
\* the three statistics alone.
C17_OnlyLabelsAdded ==
    [][pc' = "clustered" =>
          /\ Len(community_data') = Len(community_data)
          /\ \A i \in DOMAIN community_data :
                /\ DOMAIN community_data'[i]
                      = DOMAIN community_data[i] \cup {"Cluster", "CrimeLevel"}
                /\ \A f \in DOMAIN community_data[i] :
                      community_data'[i][f] = community_data[i][f]
                /\ community_data'[i].Cluster \in ClusterIds
                /\ community_data'[i].CrimeLevel \in Range(crime_levels)
          /\ [i \in DOMAIN community_data |-> community_data'[i].Cluster]
                = KMeansFit(StatisticsOnly(community_data), random_state).labels_
    ]_vars

\* C17 witness: a labeled table in which a cluster holds two community areas
\* with different crime counts
C17_Witness ==
    /\ Clustered
    /\ \E i, j \in DOMAIN community_data :
          /\ community_data[i].Cluster = community_data[j].Cluster
          /\ community_data[i].CrimeCount # community_data[j].CrimeCount

====
